---- MODULE Spec2Model ----
(***************************************************************************)
(* Verification model of the query pipeline's back end:                    *)
(*   - the temporary-table scheduler                                       *)
(*       databuilder/sqlalchemy_utils.py  get_setup_and_cleanup_queries    *)
(*   - the SQL dump                        ehrql/main.py  get_sql_strings  *)
(*   - live execution     ehrql/query_engines/mssql.py  get_results        *)
(*   - the batched reader  ehrql.utils.sqlalchemy_exec_utils               *)
(*       fetch_table_in_batches                                            *)
(***************************************************************************)
EXTENDS Integers, Sequences, FiniteSets, TLC

(***************************************************************************)
(* Bounds                                                                  *)
(***************************************************************************)
\* number of TemporaryTable objects that exist
NTables == 3

\* largest key value of a row of the results table
MaxKey == 3
\* largest number of rows in the results table
MaxRows == 3
\* largest batch size
MaxBatch == 2
\* largest number of setup queries and of cleanup queries
MaxQueries == 2

TempTables == 1..NTables
\* an ordinary sqlalchemy.Table, which is not a TemporaryTable
PlainTable == 0
AllTables == TempTables \cup {PlainTable}

(***************************************************************************)
(* Generic helpers                                                         *)
(***************************************************************************)
Range(s) == {s[i] : i \in DOMAIN s}

\* reversed(seq)
Reverse(s) == [i \in 1..Len(s) |-> s[Len(s) + 1 - i]]

\* every order in which the elements of a set can be iterated: tuple(set)
Perms(S) ==
    {p \in [1..Cardinality(S) -> S] : \A i, j \in 1..Cardinality(S) : i # j => p[i] # p[j]}

SetMax(S) == CHOOSE x \in S : \A y \in S : y <= x

(***************************************************************************)
(* Clauses.  A clause is a sqlalchemy.Table itself (kind "table"), an      *)
(* element that carries a `table` attribute (kind "attr": a Column, an     *)
(* Insert, a SelectStarInto), or any other element (kind "node"), whose    *)
(* children are given by the tables they are or belong to.                 *)
(***************************************************************************)
Clause(k, t, ch) == [kind |-> k, table |-> t, children |-> ch]

\* get_referenced_tables: the set whose tuple() is returned
get_referenced_tables(clause) ==
    IF clause.kind = "table" THEN {clause.table}
    ELSE IF clause.kind = "attr" THEN {clause.table}
    ELSE clause.children

\* get_temporary_tables: the referenced tables that are TemporaryTables
get_temporary_tables(clause) ==
    {table \in get_referenced_tables(clause) : table \in TempTables}

(***************************************************************************)
(* State                                                                   *)
(***************************************************************************)
VARIABLES
    \* ---- scheduler: get_setup_and_cleanup_queries ----
    clause,          \* the argument
    setup_of,        \* table -> its setup_queries (a sequence of clauses)
    cleanup_of,      \* table -> its cleanup_queries
    clauses,         \* the work list of (clause, level, seen)
    table_levels,    \* the dict: table -> level, NoLevel when absent
    level_keys,      \* the dict's keys in insertion order
    observed,        \* history: every (table, level) ever written to the dict
    tables,          \* the sorted tables
    setup_queries,   \* result: sequence of <<table, index>>
    cleanup_queries, \* result: sequence of <<table, index>>
    sched_pc         \* "loop" | "done"

VARIABLES
    \* ---- get_results / get_sql_strings / fetch_table_in_batches ----
    n_setup,         \* len(setup_queries)
    n_cleanup,       \* len(cleanup_queries)
    table_data,      \* the rows <<key, value>> of the results table
    batch_size,      \* batch_size
    gr_pc,           \* where the generator get_results stands
    executed,        \* the statements sent to the connection, in order
    min_key,         \* <<>> for None, <<k>> for the key k
    batch,           \* the rows of the current batch not yet yielded
    row_count,       \* rows of the current batch yielded so far
    batch_count,     \* number of the current batch
    delivered,       \* the rows yielded to the consumer, each with its batch
    call_count,      \* number of queries issued by the reader
    conn_open,       \* the ReconnectableConnection context is entered
    sql_strings      \* the result of get_sql_strings, <<>> before the call

VARIABLES
    \* ---- execute_with_retry, as get_results and the tests call it ----
    temp_database_name, \* config: <<>> when unset, else the database's name
    rt_max_retries,  \* max_retries
    rt_retry_sleep,  \* retry_sleep
    rt_backoff,      \* backoff_factor
    rt_rows,         \* the rows the query returns when nothing fails
    rt_pc,           \* "attempt" | "returned" | "raised"
    rt_retries,      \* retries made so far
    rt_next_sleep,   \* the sleep before the next retry
    rt_sleeps,       \* the arguments of time.sleep, in order
    rt_attempts,     \* per attempt: how it ended and on which connection
    rt_read,         \* the rows read from the result of the latest attempt
    rt_rollbacks,    \* number of rollbacks
    rt_conn,         \* the connection in use, 0 when disconnected
    rt_conn_count,   \* connections opened so far
    rt_result        \* the value returned

retryVars == <<temp_database_name, rt_max_retries, rt_retry_sleep, rt_backoff,
               rt_rows, rt_pc, rt_retries, rt_next_sleep, rt_sleeps, rt_attempts,
               rt_read, rt_rollbacks, rt_conn, rt_conn_count, rt_result>>

VARIABLES
    \* ---- apply_transforms ----
    heap,            \* the query model objects: object id -> its attributes
    kept,            \* the objects callers hold, as they were when handed over
    arg_vars,        \* the variables mapping passed in: variable -> object id
    variables,       \* the mapping apply_transforms returned last
    tf_pc,           \* "ready": a call can be made, "returned": it has returned
    tf_round,        \* 1 for the first application, 2 for the second
    result1,         \* the mapping returned by the first application
    result2,         \* the mapping returned by the second application
    tf_order_series  \* the series the first sort_by of the definition was given

tfVars == <<heap, kept, arg_vars, variables, tf_pc, tf_round, result1, result2,
            tf_order_series>>

VARIABLES
    \* ---- Dataset ----
    ds_variables,    \* Dataset.variables: the <<name, value>> pairs in insertion order
    ds_result        \* how the last operation on the dataset ended

dsVars == <<ds_variables, ds_result>>

VARIABLES
    \* ---- division: from the expression written to the value computed ----
    dv_row,          \* the patient's row: column -> SQL value
    dv_dialect,      \* the query engine that evaluates the expression
    dv_written,      \* the expression as written: operator, left and right operand
    dv_expr,         \* the query model node the operator built
    dv_result,       \* the SQL value the engine's expression gives for the row
    dv_pc            \* "start", "built" or "evaluated"

divVars == <<dv_row, dv_dialect, dv_written, dv_expr, dv_result, dv_pc>>

VARIABLES
    \* ---- MSSQLQueryEngine.date_add_months ----
    da_date,         \* the date of the row
    da_num_months,   \* the number of months added
    da_result,       \* the date the SQL expression gives
    da_pc            \* "start" or "done"

dateVars == <<da_date, da_num_months, da_result, da_pc>>

VARIABLES
    \* ---- type_matches ----
    typevar_context, \* the dict shared by the calls: type variable -> its value
    tm_call          \* the last call: its arguments, the context it was given
                     \* and what it returned

typeVars == <<typevar_context, tm_call>>

VARIABLES
    \* ---- file_formats.arrow ----
    ar_minimum,      \* the bounds of an integer column
    ar_maximum,
    ar_type,         \* what smallest_int_type_for_range returned
    ar_pc            \* "idle", "called" / "returned"

arrowVars == <<ar_minimum, ar_maximum, ar_type, ar_pc>>

resVars == <<n_setup, n_cleanup, table_data, batch_size, gr_pc, executed, min_key,
             batch, row_count, batch_count, delivered, call_count, conn_open,
             sql_strings>>

schedVars == <<clause, setup_of, cleanup_of, clauses, table_levels, level_keys,
               observed, tables, setup_queries, cleanup_queries, sched_pc>>

vars ==
    <<schedVars, resVars, retryVars, tfVars, dsVars, divVars, dateVars, typeVars,
      arrowVars>>

\* what the scheduler leaves alone, and what execution leaves alone
notSched ==
    <<resVars, retryVars, tfVars, dsVars, divVars, dateVars, typeVars,
      arrowVars>>
notResults ==
    <<schedVars, retryVars, tfVars, dsVars, divVars, dateVars, typeVars,
      arrowVars>>
notRetry ==
    <<schedVars, resVars, tfVars, dsVars, divVars, dateVars, typeVars,
      arrowVars>>
notTransform ==
    <<schedVars, resVars, retryVars, dsVars, divVars, dateVars, typeVars,
      arrowVars>>
notDataset ==
    <<schedVars, resVars, retryVars, tfVars, divVars, dateVars, typeVars,
      arrowVars>>
notDivision ==
    <<schedVars, resVars, retryVars, tfVars, dsVars, dateVars, typeVars,
      arrowVars>>
notDate ==
    <<schedVars, resVars, retryVars, tfVars, dsVars, divVars, typeVars,
      arrowVars>>
notTyping ==
    <<schedVars, resVars, retryVars, tfVars, dsVars, divVars, dateVars,
      arrowVars>>
notArrow ==
    <<schedVars, resVars, retryVars, tfVars, dsVars, divVars, dateVars,
      typeVars>>

NoLevel == -1

(***************************************************************************)
(* The inputs: tables whose setup queries form, by construction, a DAG     *)
(* except that every table's setup refers to the table itself.             *)
(***************************************************************************)
\* the tables that table t may depend on
Later(t) == {u \in TempTables : u > t}

\* the setup_queries of table t, which refer to t itself and to the tables D it
\* is built from: one statement whose children are searched (shape 1), or a
\* statement that carries t as its `table` attribute, which is all that
\* get_referenced_tables reports of it, followed by one whose children are
\* searched (shape 2); or, as temporary_table_from_query builds them, a
\* SelectStarInto(t, query on D), which carries t as its `table` attribute,
\* followed by a CreateIndex, which has no children (shape 3)
SetupShape(shape, t, D) ==
    IF shape = 1
    THEN <<Clause("node", PlainTable, {t} \cup D)>>
    ELSE IF shape = 2
    THEN <<Clause("attr", t, {t} \cup D),
           Clause("node", PlainTable, {t, PlainTable} \cup D)>>
    ELSE <<Clause("attr", t, {t} \cup D),
           Clause("node", PlainTable, {})>>

\* the cleanup_queries of table t: DropTable(table, if_exists=True), or none
CleanupShape(withCleanup, t) ==
    IF withCleanup THEN <<Clause("node", PlainTable, {t})>> ELSE <<>>

SchedInit ==
    /\ clause \in {Clause("node", PlainTable, S \cup {PlainTable}) : S \in SUBSET TempTables}
    /\ \E shape \in {1, 2, 3} :
       \E deps \in [TempTables -> SUBSET TempTables] :
          /\ \A t \in TempTables : deps[t] \subseteq Later(t)
          /\ setup_of = [t \in TempTables |-> SetupShape(shape, t, deps[t])]
    /\ \E withCleanup \in BOOLEAN :
          cleanup_of = [t \in TempTables |-> CleanupShape(withCleanup, t)]
    /\ clauses = <<[clause |-> clause, level |-> 0, seen |-> {}]>>
    /\ table_levels = [t \in TempTables |-> NoLevel]
    /\ level_keys = <<>>
    /\ observed = {}
    /\ tables = <<>>
    /\ setup_queries = <<>>
    /\ cleanup_queries = <<>>
    /\ sched_pc = "loop"

(***************************************************************************)
(* get_setup_and_cleanup_queries                                           *)
(***************************************************************************)
\* variant of AlreadySeen that never skips a table
AlreadySeenNever(table, seen) == FALSE

\* line 194: `if table in seen: continue`
AlreadySeen(table, seen) == table \in seen

\* variant of SetLevel that keeps the level a table was given first
SetLevelFirst(levels, table, level) ==
    IF levels[table] # NoLevel THEN levels ELSE [levels EXCEPT ![table] = level]

\* line 198: table_levels[table] = level
SetLevel(levels, table, level) == [levels EXCEPT ![table] = level]

\* a dict keeps a key at the position of its first insertion
KeyInsert(keys, table) ==
    IF table \in Range(keys) THEN keys ELSE Append(keys, table)

\* lines 200-203: the (query, level + 1, seen | {table}) entries of one table
Expansion(table, level, seen) ==
    [i \in 1..(Len(setup_of[table]) + Len(cleanup_of[table])) |->
        [clause |-> (setup_of[table] \o cleanup_of[table])[i],
         level  |-> level + 1,
         seen   |-> seen \cup {table}]]

\* lines 193-203: the body of the for loop, over the tables in the given order
RECURSIVE ForTables(_, _, _, _)
ForTables(order, level, seen, st) ==
    IF order = <<>> THEN st
    ELSE LET table == Head(order) IN
         IF AlreadySeen(table, seen)
         THEN ForTables(Tail(order), level, seen, st)
         ELSE ForTables(Tail(order), level, seen,
                  [levels |-> SetLevel(st.levels, table, level),
                   keys   |-> KeyInsert(st.keys, table),
                   obs    |-> st.obs \cup {<<table, level>>},
                   queue  |-> st.queue \o Expansion(table, level, seen)])

\* lines 191-203: one iteration of the while loop
ProcessClause ==
    /\ sched_pc = "loop"
    /\ clauses # <<>>
    /\ LET next == Head(clauses) IN
       \E order \in Perms(get_temporary_tables(next.clause)) :
          LET st == ForTables(order, next.level, next.seen,
                       [levels |-> table_levels, keys |-> level_keys,
                        obs |-> observed, queue |-> Tail(clauses)])
          IN /\ clauses' = st.queue
             /\ table_levels' = st.levels
             /\ level_keys' = st.keys
             /\ observed' = st.obs
    /\ UNCHANGED <<clause, setup_of, cleanup_of, tables, setup_queries,
                   cleanup_queries, sched_pc>>
    /\ UNCHANGED notSched

\* sorted(keys, key=..., reverse=True): a stable sort, so that keys that compare
\* equal stay in their original order
RECURSIVE InsertDesc(_, _, _)
InsertDesc(sorted, t, key) ==
    IF sorted = <<>> THEN <<t>>
    ELSE IF key[Head(sorted)] >= key[t]
         THEN <<Head(sorted)>> \o InsertDesc(Tail(sorted), t, key)
         ELSE <<t>> \o sorted

\* variant of SortedByLevel that leaves the keys in insertion order
SortedByLevelUnsorted(keys, key) == keys

RECURSIVE SortedByLevel(_, _)
SortedByLevel(keys, key) ==
    IF keys = <<>> THEN <<>>
    ELSE InsertDesc(SortedByLevel(SubSeq(keys, 1, Len(keys) - 1), key),
                    keys[Len(keys)], key)

\* flatten_lists(t.<queries> for t in ts), each query named by table and index
RECURSIVE flatten_lists(_, _)
flatten_lists(ts, queries_of) ==
    IF ts = <<>> THEN <<>>
    ELSE [i \in 1..Len(queries_of[Head(ts)]) |-> <<Head(ts), i>>]
         \o flatten_lists(Tail(ts), queries_of)

\* variant of CleanupOrder that keeps the setup order
CleanupOrderSame(ts) == ts

\* line 217: the order in which the tables' cleanup queries are concatenated
CleanupOrder(ts) == Reverse(ts)

\* lines 205-219: after the loop
Finish ==
    /\ sched_pc = "loop"
    /\ clauses = <<>>
    /\ tables' = SortedByLevel(level_keys, table_levels)
    /\ setup_queries' = flatten_lists(tables', setup_of)
    /\ cleanup_queries' = flatten_lists(CleanupOrder(tables'), cleanup_of)
    /\ sched_pc' = "done"
    /\ UNCHANGED <<clause, setup_of, cleanup_of, clauses, table_levels,
                   level_keys, observed>>
    /\ UNCHANGED notSched

SchedNext == ProcessClause \/ Finish

(***************************************************************************)
(* Properties of the scheduler                                             *)
(***************************************************************************)
\* the temporary tables that the setup queries of table a reference
SetupRefs(a) == UNION {get_temporary_tables(setup_of[a][i]) : i \in DOMAIN setup_of[a]}

\* the temporary tables that any query of table a references
QueryRefs(a) ==
    SetupRefs(a) \cup UNION {get_temporary_tables(cleanup_of[a][i]) : i \in DOMAIN cleanup_of[a]}

\* the positions of the queries of table t in a result list
PositionsOf(list, t) == {i \in DOMAIN list : list[i][1] = t}

BranchesBounded ==
    \A i \in DOMAIN clauses :
        /\ Cardinality(clauses[i].seen) = clauses[i].level
        /\ clauses[i].level <= NTables

\* the largest number of entries one iteration can add to the work list
MaxPushed == NTables * (2 + 1)

\* the weight of a work-list entry that has d tables left to see: more than the
\* weight of everything its processing can add
RECURSIVE Weight(_)
Weight(d) == IF d <= 0 THEN 1 ELSE 1 + MaxPushed * Weight(d - 1)

RECURSIVE TotalWeight(_)
TotalWeight(queue) ==
    IF queue = <<>> THEN 0
    ELSE Weight(NTables - Head(queue).level) + TotalWeight(Tail(queue))

\* the work that is left: a natural number
Variant == TotalWeight(clauses)

\* C2: the traversal terminates although every table's setup queries reference
\* the table itself: no branch expands a table it has already seen, so every
\* iteration of the loop strictly decreases the work that is left.
C2_Terminates ==
    /\ [](BranchesBounded)
    /\ [][sched_pc' = "loop" => Variant' < Variant]_vars

C2_Witness ==
    /\ sched_pc = "done"
    /\ Len(tables) = NTables
    /\ \A t \in TempTables : t \in SetupRefs(t)

\* the levels at which table t was recorded during the traversal
ObservedLevels(t) == {l \in 0..NTables : <<t, l>> \in observed}

\* the length of the longest chain of references from the clause to table t,
\* -1 when there is none (the references go from a table to later tables only)
RECURSIVE LongestChain(_)
LongestChain(t) ==
    SetMax({NoLevel}
           \cup (IF t \in get_temporary_tables(clause) THEN {0} ELSE {})
           \cup {LongestChain(p) + 1 : p \in {q \in TempTables :
                     q < t /\ t \in QueryRefs(q) /\ LongestChain(q) # NoLevel}})

\* C3: the level finally recorded for a table is the maximum depth at which it
\* was observed, which is the length of the longest chain of references that
\* leads to it, and the tables are ordered by that level, deepest first.
C3_MaxDepthRecorded ==
    sched_pc = "done" =>
        /\ \A t \in TempTables :
              /\ table_levels[t] = SetMax(ObservedLevels(t) \cup {NoLevel})
              /\ table_levels[t] = LongestChain(t)
        /\ \A i, j \in DOMAIN tables :
              i < j => table_levels[tables[i]] >= table_levels[tables[j]]

C3_Witness ==
    /\ sched_pc = "done"
    /\ \E t \in TempTables :
          /\ Cardinality(ObservedLevels(t)) >= 2
          /\ table_levels[t] = 2

TablesIn(query) == query.children \cap TempTables

\* the generated tables that the queries of table a refer to
TablesInQueriesOf(a) ==
    UNION {TablesIn((setup_of[a] \o cleanup_of[a])[i]) :
              i \in 1..(Len(setup_of[a]) + Len(cleanup_of[a]))}

RECURSIVE ReachableFrom(_)
ReachableFrom(S) ==
    LET more == S \cup UNION {TablesInQueriesOf(a) : a \in S} IN
    IF more = S THEN S ELSE ReachableFrom(more)

\* the generated tables reachable from the clause through setup and cleanup
\* queries
Reachable == ReachableFrom(TablesIn(clause))

\* every query of `queries_of` for table t is in the list exactly once
ContributedOnce(list, queries_of, t) ==
    \A i \in DOMAIN queries_of[t] :
        Cardinality({k \in DOMAIN list : list[k] = <<t, i>>}) = 1

\* C28: each generated table reachable from the clause contributes its setup
\* queries exactly once to the setup list and its cleanup queries exactly once
\* to the cleanup list, and no query of an unreachable table is in either.
C28_ReachableTablesOnce ==
    sched_pc = "done" =>
        /\ \A t \in Reachable :
              /\ ContributedOnce(setup_queries, setup_of, t)
              /\ ContributedOnce(cleanup_queries, cleanup_of, t)
        /\ \A k \in DOMAIN setup_queries :
              /\ setup_queries[k][1] \in Reachable
              /\ setup_queries[k][2] \in DOMAIN setup_of[setup_queries[k][1]]
        /\ \A k \in DOMAIN cleanup_queries :
              /\ cleanup_queries[k][1] \in Reachable
              /\ cleanup_queries[k][2] \in DOMAIN cleanup_of[cleanup_queries[k][1]]

(***************************************************************************)
(* The results table and the connection                                    *)
(***************************************************************************)
Keys == 1..MaxKey
\* the values of the column that is not the key
Values == {"a", "b"}
Rows == Keys \X Values

KeyOf(row) == row[1]

\* the first n elements of a sequence: seq[:n]
Take(seq, n) == SubSeq(seq, 1, IF n < Len(seq) THEN n ELSE Len(seq))

\* variant of sorted_data that returns the rows in any order
sorted_data_unsorted(rows) == Perms(rows)

\* FakeConnection.sorted_data: the rows sorted by key, rows of equal key in an
\* arbitrary order on every call
sorted_data(rows) ==
    {p \in Perms(rows) : \A i, j \in DOMAIN p : i < j => KeyOf(p[i]) <= KeyOf(p[j])}

\* variant of KeyFilter that also keeps the rows at the last key
KeyFilterInclusive(rows, last) ==
    IF last = <<>> THEN rows ELSE {r \in rows : KeyOf(r) >= last[1]}

\* the WHERE clause: none for the first query, then key > :last
KeyFilter(rows, last) ==
    IF last = <<>> THEN rows ELSE {r \in rows : KeyOf(r) > last[1]}

\* FakeConnection.execute: what the two query forms can return
\*   SELECT ... ORDER BY key LIMIT :batch
\*   SELECT ... WHERE key > :last ORDER BY key LIMIT :batch
ExecuteQuery(rows, last, limit) ==
    {Take(p, limit) : p \in sorted_data(KeyFilter(rows, last))}

(***************************************************************************)
(* get_sql_strings                                                         *)
(***************************************************************************)
\* the "-- Setup query i / n", "-- Results query", "-- Cleanup query i / n" strings
Strings(tag, n) == [i \in 1..n |-> <<tag, i>>]

\* variant of SqlStrings that writes the cleanup queries before the results query
SqlStringsCleanupEarly(ns, nc) ==
    Strings("setup", ns) \o Strings("cleanup", nc) \o Strings("results", 1)

\* ehrql/main.py get_sql_strings
SqlStrings(ns, nc) ==
    Strings("setup", ns) \o Strings("results", 1) \o Strings("cleanup", nc)

GetSqlStrings ==
    /\ sql_strings = <<>>
    /\ sql_strings' = SqlStrings(n_setup, n_cleanup)
    /\ UNCHANGED <<n_setup, n_cleanup, table_data, batch_size, gr_pc, executed,
                   min_key, batch, row_count, batch_count, delivered, call_count,
                   conn_open>>
    /\ UNCHANGED notResults

(***************************************************************************)
(* MSSQLQueryEngine.get_results, a generator, with fetch_table_in_batches  *)
(***************************************************************************)
UniqueKeys(rows) == \A r1, r2 \in rows : KeyOf(r1) = KeyOf(r2) => r1 = r2

ResultsInit ==
    /\ n_setup \in 1..MaxQueries
    /\ n_cleanup \in 1..MaxQueries
    /\ table_data \in {rows \in SUBSET Rows : Cardinality(rows) <= MaxRows}
    /\ batch_size \in 1..MaxBatch
    /\ gr_pc = "setup"
    /\ executed = <<>>
    /\ min_key = <<>>
    /\ batch = <<>>
    /\ row_count = 0
    /\ batch_count = 1
    /\ delivered = <<>>
    /\ call_count = 0
    /\ conn_open = TRUE
    /\ sql_strings = <<>>

Count(log, tag) == Cardinality({i \in DOMAIN log : log[i] = tag})

\* lines 210-212: the loop over the setup queries ends after the last one
AfterSetup(done, total) == IF done = total THEN "fetch" ELSE "setup"

\* lines 210-212: connection.execute(setup_query)
RunSetupQuery ==
    /\ gr_pc = "setup"
    /\ executed' = Append(executed, "setup")
    /\ gr_pc' = AfterSetup(Count(executed', "setup"), n_setup)
    /\ UNCHANGED <<n_setup, n_cleanup, table_data, batch_size, min_key, batch,
                   row_count, batch_count, delivered, call_count, conn_open,
                   sql_strings>>
    /\ UNCHANGED notResults

\* variant of BatchIsLast that stops only at an empty batch
BatchIsLastWhenEmpty(count, size) == count = 0

\* the reader stops at the first batch with fewer than batch_size rows
BatchIsLast(count, size) == count < size

\* variant of NextMinKey that pages from the first key of the batch
NextMinKeyFirst(rows) == <<KeyOf(rows[1])>>

\* the key of the last row of a batch
NextMinKey(rows) == <<KeyOf(rows[Len(rows)])>>

\* fetch_table_in_batches: execute the next query; an empty batch ends the
\* iteration, otherwise its first row is yielded
FetchBatch ==
    /\ gr_pc = "fetch"
    /\ \E results \in ExecuteQuery(table_data, min_key, batch_size) :
          /\ executed' = Append(executed, "fetch")
          /\ call_count' = call_count + 1
          /\ IF results = <<>>
             THEN /\ gr_pc' = IF BatchIsLast(0, batch_size) THEN "cleanup" ELSE "fetch"
                  /\ batch_count' = batch_count + 1
                  /\ UNCHANGED <<batch, row_count, delivered>>
             ELSE /\ gr_pc' = "suspended"
                  /\ batch' = Tail(results)
                  /\ row_count' = 1
                  /\ delivered' = Append(delivered, [row |-> Head(results), batch |-> batch_count])
                  /\ UNCHANGED batch_count
    /\ UNCHANGED <<n_setup, n_cleanup, table_data, batch_size, min_key, conn_open,
                   sql_strings>>
    /\ UNCHANGED notResults

\* the consumer asks for the next row: the next row of the batch is yielded, or
\* the batch is over and the reader stops or moves on to the next batch
NextRow ==
    /\ gr_pc = "suspended"
    /\ IF batch # <<>>
       THEN /\ delivered' = Append(delivered, [row |-> Head(batch), batch |-> batch_count])
            /\ batch' = Tail(batch)
            /\ row_count' = row_count + 1
            /\ UNCHANGED <<gr_pc, min_key, batch_count>>
       ELSE /\ batch_count' = batch_count + 1
            /\ IF BatchIsLast(row_count, batch_size)
               THEN gr_pc' = "cleanup" /\ UNCHANGED min_key
               ELSE /\ gr_pc' = "fetch"
                    /\ min_key' = NextMinKey(
                          [i \in 1..row_count |->
                              delivered[Len(delivered) - row_count + i].row])
            /\ UNCHANGED <<delivered, batch, row_count>>
    /\ UNCHANGED <<n_setup, n_cleanup, table_data, batch_size, executed, call_count,
                   conn_open, sql_strings>>
    /\ UNCHANGED notResults

\* lines 241-243: connection.execute(cleanup_query); after the last one the
\* generator returns and the connection context exits
RunCleanupQuery ==
    /\ gr_pc = "cleanup"
    /\ executed' = Append(executed, "cleanup")
    /\ IF Count(executed', "cleanup") = n_cleanup
       THEN gr_pc' = "done" /\ conn_open' = FALSE
       ELSE UNCHANGED <<gr_pc, conn_open>>
    /\ UNCHANGED <<n_setup, n_cleanup, table_data, batch_size, min_key, batch,
                   row_count, batch_count, delivered, call_count, sql_strings>>
    /\ UNCHANGED notResults

\* the consumer drops the generator while it is suspended at a yield:
\* GeneratorExit leaves the `with` block (line 206), nothing after line 239 runs
Abandon ==
    /\ gr_pc = "suspended"
    /\ gr_pc' = "abandoned"
    /\ conn_open' = FALSE
    /\ UNCHANGED <<n_setup, n_cleanup, table_data, batch_size, executed, min_key,
                   batch, row_count, batch_count, delivered, call_count, sql_strings>>
    /\ UNCHANGED notResults

\* a query raises (for a batch: after its retries are used up); the exception
\* leaves the `with` block and reaches the consumer
ExecuteRaises ==
    /\ gr_pc \in {"setup", "fetch", "cleanup"}
    /\ executed' = Append(executed, IF gr_pc = "fetch" THEN "fetch_failed" ELSE "failed")
    /\ gr_pc' = "error"
    /\ conn_open' = FALSE
    /\ UNCHANGED <<n_setup, n_cleanup, table_data, batch_size, min_key, batch,
                   row_count, batch_count, delivered, call_count, sql_strings>>
    /\ UNCHANGED notResults

ResultsNext ==
    \/ GetSqlStrings
    \/ RunSetupQuery
    \/ FetchBatch
    \/ NextRow
    \/ RunCleanupQuery
    \/ Abandon
    \/ ExecuteRaises

(***************************************************************************)
(* Properties of execution and of the reader                               *)
(***************************************************************************)
IsFetch(e) == e \in {"fetch", "fetch_failed"}

\* the rows yielded so far, without their batch numbers
DeliveredRows == [i \in DOMAIN delivered |-> delivered[i].row]

\* the generator has read the results table to its end
StreamConsumed == gr_pc \in {"cleanup", "done"}

\* a sequence holds every element of a set exactly once
EachOnce(seq, set) ==
    /\ Range(seq) = set
    /\ \A i, j \in DOMAIN seq : i # j => seq[i] # seq[j]

\* C5: in the dumped SQL and in live execution alike, every setup query comes
\* before the results query (its first fetch) and every cleanup query after it
\* (its last fetch).
C5_SetupResultsCleanupOrder ==
    /\ \A i, j \in DOMAIN executed :
          /\ (executed[i] = "setup" /\ IsFetch(executed[j])) => i < j
          /\ (IsFetch(executed[i]) /\ executed[j] = "cleanup") => i < j
          /\ (executed[i] = "setup" /\ executed[j] = "cleanup") => i < j
    /\ (\E i \in DOMAIN executed : IsFetch(executed[i])) =>
          Count(executed, "setup") = n_setup
    /\ sql_strings # <<>> =>
          /\ Cardinality({i \in DOMAIN sql_strings : sql_strings[i][1] = "results"}) = 1
          /\ \A i, j \in DOMAIN sql_strings :
                /\ (sql_strings[i][1] = "setup" /\ sql_strings[j][1] = "results") => i < j
                /\ (sql_strings[i][1] = "results" /\ sql_strings[j][1] = "cleanup") => i < j

C5_Witness ==
    /\ gr_pc = "done"
    /\ Count(executed, "setup") = 2
    /\ Count(executed, "fetch") = 2
    /\ Count(executed, "cleanup") = 2
    /\ Len(sql_strings) = 5

\* C6: once the setup queries have run, the cleanup queries are run on every way
\* the result stream can end: consumed to its end, abandoned part-way, or ended
\* by an exception.
C6_CleanupOnEveryExit ==
    (gr_pc \in {"done", "abandoned", "error"} /\ Count(executed, "setup") = n_setup)
        => Count(executed, "cleanup") = n_cleanup

\* C7: with unique keys and any batch size, the rows yielded are the rows of
\* the table, each exactly once.
C7_UniqueKeysEachRowOnce ==
    (StreamConsumed /\ UniqueKeys(table_data)) => EachOnce(DeliveredRows, table_data)

C7_Witness ==
    /\ gr_pc = "done"
    /\ UniqueKeys(table_data)
    /\ Cardinality(table_data) = 3
    /\ batch_size = 2
    /\ Len(delivered) = 3

\* C8: every row of the table is yielded exactly once also when several rows
\* share a key value, whatever the batch size.
C8_DuplicateKeysEachRowOnce ==
    StreamConsumed => EachOnce(DeliveredRows, table_data)

\* C9: the rows are delivered in ascending key order, inside each batch and
\* across batch boundaries.
C9_AscendingKeys ==
    \A i, j \in DOMAIN delivered :
        i < j =>
            /\ KeyOf(delivered[i].row) <= KeyOf(delivered[j].row)
            /\ delivered[i].batch < delivered[j].batch
                  => KeyOf(delivered[i].row) < KeyOf(delivered[j].row)
            /\ UniqueKeys(table_data) => KeyOf(delivered[i].row) < KeyOf(delivered[j].row)

C9_Witness ==
    /\ gr_pc = "done"
    /\ Len(delivered) = 3
    /\ delivered[2].batch = 1
    /\ delivered[3].batch = 2
    /\ KeyOf(delivered[1].row) = KeyOf(delivered[2].row)

\* C10: reading n rows with unique keys in batches of b issues n \div b + 1
\* queries, the last of them an empty batch when b divides n.
C10_QueryCount ==
    (StreamConsumed /\ UniqueKeys(table_data)) =>
        call_count = (Cardinality(table_data) \div batch_size) + 1

C10_Witness ==
    /\ gr_pc = "done"
    /\ UniqueKeys(table_data)
    /\ Cardinality(table_data) = 2
    /\ batch_size = 2
    /\ call_count = 2

(***************************************************************************)
(* execute_with_retry, and the connection get_results hands to it          *)
(***************************************************************************)
MaxRetries == 3
MaxResultRows == 2

\* the arguments get_results passes to execute_with_retry_factory
GetResultsMaxRetries == 6
GetResultsRetrySleep == 4
GetResultsBackoffFactor == 4

\* the arguments of test_execute_with_retry
TestRetrySleep == 10
TestBackoffFactor == 2

Chars(n) == [i \in 1..n |-> "x"]

\* get_results_table_name_and_schema: the name of the results table
ResultsTableName(temp_db) ==
    IF temp_db # <<>> THEN <<"r", "e", "s", "u", "l", "t", "s", "_">> \o Chars(1)
    ELSE <<"#", "r", "e", "s", "u", "l", "t", "s">>

\* temporary_table_from_query: table.is_persistent
is_persistent(table_name) == ~(Len(table_name) > 0 /\ table_name[1] = "#")

ResultsTablePersistent == is_persistent(ResultsTableName(temp_database_name))

\* get_results: the function that executes the queries of the reader
ConnExecuteAlwaysDisconnect(persistent) == "execute_disconnect_on_error"

ConnExecute(persistent) ==
    IF persistent THEN "execute_disconnect_on_error" ELSE "execute"

\* get_results wraps conn_execute, whichever it is, in execute_with_retry: the
\* ways an attempt can fail that the retry loop sees
RetriedFailuresPersistentOnly(persistent) ==
    IF persistent THEN {"execute_error", "iteration_error"} ELSE {"execute_error"}

RetriedFailures(persistent) == {"execute_error", "iteration_error"}

\* execute_with_retry: an error is raised to the caller when no retry is left
RetriesExhaustedLate(retries, max_retries) == retries > max_retries

RetriesExhausted(retries, max_retries) == retries >= max_retries

\* execute_with_retry: the sleep after the one just made
NextSleepConstant(sleep, backoff_factor) == sleep

NextSleep(sleep, backoff_factor) == sleep * backoff_factor

\* execute_with_retry: the value returned by the attempt that succeeds
ReturnedRowsAccumulated(read_before, rows) == read_before \o rows

ReturnedRows(read_before, rows) == rows

\* execute_with_retry: connection.rollback() is called when the failed attempt
\* is going to be retried, not when the error is raised to the caller
RolledBackAlways(rollbacks, retrying) == rollbacks + 1

RolledBack(rollbacks, retrying) == IF retrying THEN rollbacks + 1 ELSE rollbacks

RetryInit ==
    /\ temp_database_name \in {<<>>, <<"t", "m", "p">>}
    /\ rt_max_retries \in (0..MaxRetries) \cup {GetResultsMaxRetries}
    /\ rt_retry_sleep \in {TestRetrySleep, GetResultsRetrySleep}
    /\ rt_backoff \in {TestBackoffFactor, GetResultsBackoffFactor}
    /\ rt_rows \in {[i \in 1..n |-> i] : n \in 0..MaxResultRows}
    /\ rt_pc = "attempt"
    /\ rt_retries = 0
    /\ rt_next_sleep = rt_retry_sleep
    /\ rt_sleeps = <<>>
    /\ rt_attempts = <<>>
    /\ rt_read = <<>>
    /\ rt_rollbacks = 0
    /\ rt_conn = 1
    /\ rt_conn_count = 1
    /\ rt_result = <<>>

\* ReconnectableConnection: the connection an execute runs on, a new one when
\* the last one was closed
ConnectionFor(conn, count) == IF conn = 0 THEN count + 1 ELSE conn

\* one attempt ends with kind `end` after reading `read`, and was run on the
\* connection ConnectionFor gives; `disconnect` says whether conn_execute
\* closed the connection on the way out
AttemptMade(end, read, disconnect) ==
    LET c == ConnectionFor(rt_conn, rt_conn_count) IN
    /\ rt_attempts' = Append(rt_attempts, [end |-> end, conn |-> c])
    /\ rt_read' = read
    /\ rt_conn_count' = IF rt_conn = 0 THEN rt_conn_count + 1 ELSE rt_conn_count
    /\ rt_conn' = IF disconnect THEN 0 ELSE c

\* what execute_with_retry does with a failed attempt: raise, or roll back,
\* sleep and go round again
AfterFailure(retried) ==
    IF ~retried \/ RetriesExhausted(rt_retries, rt_max_retries)
    THEN /\ rt_pc' = "raised"
         /\ rt_rollbacks' = RolledBack(rt_rollbacks, FALSE)
         /\ UNCHANGED <<rt_retries, rt_sleeps, rt_next_sleep>>
    ELSE /\ rt_pc' = "attempt"
         /\ rt_retries' = rt_retries + 1
         /\ rt_rollbacks' = RolledBack(rt_rollbacks, TRUE)
         /\ rt_sleeps' = Append(rt_sleeps, rt_next_sleep)
         /\ rt_next_sleep' = NextSleep(rt_next_sleep, rt_backoff)

\* an attempt whose execute and iteration both succeed
AttemptSucceeds ==
    /\ rt_pc = "attempt"
    /\ AttemptMade("ok", rt_rows, FALSE)
    /\ rt_result' = ReturnedRows(rt_read, rt_rows)
    /\ rt_pc' = "returned"
    /\ UNCHANGED <<temp_database_name, rt_max_retries, rt_retry_sleep, rt_backoff,
                   rt_rows, rt_retries, rt_next_sleep, rt_sleeps, rt_rollbacks>>
    /\ UNCHANGED notRetry

\* an attempt whose execute raises
ExecuteFails ==
    /\ rt_pc = "attempt"
    /\ AttemptMade("execute_error", <<>>,
                   ConnExecute(ResultsTablePersistent) = "execute_disconnect_on_error")
    /\ AfterFailure("execute_error" \in RetriedFailures(ResultsTablePersistent))
    /\ UNCHANGED <<temp_database_name, rt_max_retries, rt_retry_sleep, rt_backoff,
                   rt_rows, rt_result>>
    /\ UNCHANGED notRetry

\* an attempt whose result raises while it is read, after k rows
IterationFails ==
    /\ rt_pc = "attempt"
    /\ \E k \in 0..Len(rt_rows), disconnect \in BOOLEAN :
          /\ disconnect => ConnExecute(ResultsTablePersistent) = "execute_disconnect_on_error"
          /\ AttemptMade("iteration_error", SubSeq(rt_rows, 1, k), disconnect)
    /\ AfterFailure("iteration_error" \in RetriedFailures(ResultsTablePersistent))
    /\ UNCHANGED <<temp_database_name, rt_max_retries, rt_retry_sleep, rt_backoff,
                   rt_rows, rt_result>>
    /\ UNCHANGED notRetry

RetryNext == AttemptSucceeds \/ ExecuteFails \/ IterationFails

RECURSIVE Pow(_, _)
Pow(b, n) == IF n = 0 THEN 1 ELSE b * Pow(b, n - 1)

Failed(i) == rt_attempts[i].end # "ok"

\* C11: when every attempt of a query fails, the query is executed exactly
\* max_retries + 1 times and the error is then raised to the caller; a call
\* never returns without an attempt that succeeded.
C11_RetriesExhausted ==
    /\ Len(rt_attempts) <= rt_max_retries + 1
    /\ rt_pc = "raised" =>
          /\ Len(rt_attempts) = rt_max_retries + 1
          /\ \A i \in DOMAIN rt_attempts : Failed(i)
    /\ (Len(rt_attempts) = rt_max_retries + 1 /\ Failed(Len(rt_attempts)))
          => rt_pc = "raised"
    /\ rt_pc = "returned" => ~Failed(Len(rt_attempts))

C11_Witness ==
    /\ rt_pc = "raised"
    /\ rt_max_retries = 3
    /\ Len(rt_attempts) = 4
    /\ \A i \in 1..4 : rt_attempts[i].end = "execute_error"

\* C12: the sleep before the k-th retry is retry_sleep * backoff_factor^(k-1),
\* and there is one sleep per retry: none before the first attempt and none
\* after the attempt that ends the call.
C12_Backoff ==
    /\ \A k \in DOMAIN rt_sleeps :
          rt_sleeps[k] = rt_retry_sleep * Pow(rt_backoff, k - 1)
    /\ Len(rt_sleeps) = rt_retries
    /\ rt_pc = "attempt" => Len(rt_sleeps) = Len(rt_attempts)
    /\ rt_pc \in {"returned", "raised"} => Len(rt_sleeps) = Len(rt_attempts) - 1

C12_Witness ==
    /\ rt_pc = "raised"
    /\ rt_retry_sleep = 10
    /\ rt_backoff = 2
    /\ rt_sleeps = <<10, 20, 40>>

SessionScoped == ResultsTableName(temp_database_name)[1] = "#"

\* C15: the connection is closed and reopened after an error only when the
\* results table is persistent; a session-scoped results table is read on the
\* connection that created it, in every attempt.
C15_ReconnectOnlyWhenPersistent ==
    /\ SessionScoped <=> ~ResultsTablePersistent
    /\ SessionScoped =>
          /\ rt_conn = 1
          /\ rt_conn_count = 1
          /\ \A i \in DOMAIN rt_attempts : rt_attempts[i].conn = 1
    /\ \A i \in DOMAIN rt_attempts :
          i < Len(rt_attempts) =>
              /\ rt_attempts[i + 1].conn # rt_attempts[i].conn => Failed(i)
              /\ (~SessionScoped /\ rt_attempts[i].end = "execute_error")
                    => rt_attempts[i + 1].conn = rt_attempts[i].conn + 1

C15_Witness ==
    /\ SessionScoped
    /\ Len(rt_attempts) = 3
    /\ rt_attempts[1].end = "execute_error"
    /\ rt_attempts[2].end = "iteration_error"
    /\ rt_attempts[3].conn = 1

\* C25: the transaction is rolled back once per retry, after the attempt that
\* failed and before the next one: f failed attempts and then a success give f
\* rollbacks, max_retries + 1 failed attempts give max_retries rollbacks.
C25_RollbackPerRetry ==
    /\ rt_rollbacks = rt_retries
    /\ rt_pc = "attempt" => rt_rollbacks = Len(rt_attempts)
    /\ rt_pc = "returned" =>
          rt_rollbacks = Cardinality({i \in DOMAIN rt_attempts : Failed(i)})
    /\ rt_pc = "raised" =>
          /\ rt_rollbacks = rt_max_retries
          /\ Len(rt_attempts) = rt_max_retries + 1

C25_Witness ==
    /\ rt_pc = "raised"
    /\ rt_max_retries = 3
    /\ Len(rt_attempts) = 4
    /\ rt_attempts[3].end = "iteration_error"
    /\ rt_rollbacks = 3

(***************************************************************************)
(* The query model objects that apply_transforms works on                  *)
(***************************************************************************)
MaxPicks == 2
MaxSorts == 2

\* the columns of the event table, in lexical order, and their types
ColumnNames == <<"a", "d", "f">>
ColumnType(name) == IF name = "f" THEN "bool" ELSE IF name = "d" THEN "date" ELSE "int"

\* the columns the dataset definitions sort by and select
SortNames == {"a", "d"}
SelectNames == {"a", "f"}

None == 0

Nd(cls, source, sort_by, col, name, position, selected_columns) ==
    [cls |-> cls, source |-> source, sort_by |-> sort_by, col |-> col,
     name |-> name, position |-> position, selected_columns |-> selected_columns]

SelectTable(name) == Nd("SelectTable", None, None, None, name, "", {})
SelectColumn(source, name) == Nd("SelectColumn", source, None, None, name, "", {})
Sort(source, sort_by) == Nd("Sort", source, sort_by, None, "", "", {})
PickOneRowPerPatient(source, position) ==
    Nd("PickOneRowPerPatient", source, None, None, "", position, {})
\* Case(cases={col: Value(2), Function.Not(col): Value(1)}, default=Value(0));
\* an attribute `source` set on it later is not one of its fields
Case(col) == Nd("Case", None, None, col, "", "", {})

IsPick(h, x) ==
    h[x].cls \in {"PickOneRowPerPatient", "PickOneRowPerPatientWithColumns"}

\* a sequence of names in lexical order
Sorted(names) == SelectSeq(ColumnNames, LAMBDA n : n \in names)

\* get_input_nodes: the fields of a node that hold nodes
get_input_nodes(h, x) ==
    LET n == h[x] IN
    CASE n.cls = "Sort" -> {n.source, n.sort_by}
      [] n.cls = "SelectColumn" -> {n.source}
      [] IsPick(h, x) -> {n.source}
      [] n.cls = "Case" -> {n.col}
      [] OTHER -> {}

\* all_nodes: a node and everything it is built from
RECURSIVE Reach(_, _, _)
Reach(h, frontier, seen) ==
    IF frontier = {} THEN seen
    ELSE LET next == UNION {get_input_nodes(h, x) : x \in frontier} IN
         Reach(h, next \ (seen \cup frontier), seen \cup frontier)

all_nodes(h, query) == Reach(h, {query}, {})

\* the == of two nodes: the same object, or objects of one class whose fields
\* are equal
RECURSIVE Eq(_, _, _)
Eq(h, x, y) ==
    \/ x = y
    \/ /\ x # None
       /\ y # None
       /\ h[x].cls = h[y].cls
       /\ CASE h[x].cls = "SelectTable" -> h[x].name = h[y].name
            [] h[x].cls = "SelectColumn" ->
                   h[x].name = h[y].name /\ Eq(h, h[x].source, h[y].source)
            [] h[x].cls = "Sort" ->
                   Eq(h, h[x].source, h[y].source) /\ Eq(h, h[x].sort_by, h[y].sort_by)
            [] h[x].cls = "PickOneRowPerPatient" ->
                   h[x].position = h[y].position /\ Eq(h, h[x].source, h[y].source)
            [] h[x].cls = "PickOneRowPerPatientWithColumns" ->
                   /\ h[x].position = h[y].position
                   /\ Eq(h, h[x].source, h[y].source)
                   /\ \A c \in h[x].selected_columns :
                         \E e \in h[y].selected_columns : Eq(h, c, e)
                   /\ \A e \in h[y].selected_columns :
                         \E c \in h[x].selected_columns : Eq(h, c, e)
            [] h[x].cls = "Case" -> Eq(h, h[x].col, h[y].col)

\* get_series_type of a column of the event table
get_series_type(h, col) == ColumnType(h[col].name)

(***************************************************************************)
(* The dataset definitions: query_language builds the objects              *)
(***************************************************************************)
TheTable == 1

\* EventFrame.sort_by(*order_series): the series are columns of the table,
\* given highest priority first and applied in reverse
reversed_as_given(order_series) == order_series

reversed(order_series) == Reverse(order_series)

\* the loop of sort_by: one Sort per series, each on top of the last
RECURSIVE SortEach(_, _, _)
SortEach(h, qm_node, todo) ==
    IF todo = <<>> THEN [heap |-> h, qm_node |-> qm_node]
    ELSE LET series == Len(h) + 1
             sorted == Len(h) + 2
         IN SortEach(h \o <<SelectColumn(TheTable, Head(todo)),
                            Sort(qm_node, series)>>,
                     sorted, Tail(todo))

sort_by(h, qm_node, order_series) == SortEach(h, qm_node, reversed(order_series))

\* SortedEventFrame.first_for_patient / last_for_patient on a sorted frame
pick_for_patient(h, sorted, position) ==
    [heap |-> Append(h, PickOneRowPerPatient(sorted, position)),
     qm_node |-> Len(h) + 1]

\* BaseFrame._select_column for each name, each one a dataset variable
RECURSIVE select_columns(_, _, _, _)
select_columns(h, frame, names, vs) ==
    IF names = <<>> THEN [heap |-> h, vars |-> vs]
    ELSE select_columns(Append(h, SelectColumn(frame, Head(names))), frame,
                        Tail(names), Append(vs, Len(h) + 1))

\* how a further row-pick relates to the first one: taken from the same sorted
\* frame, built again by the same expression, or built from another sort
Modes == {"shared", "equal", "other"}

\* a dataset definition: the first row-pick sorts by `chain`; pick i + 1 is built
\* in mode modes[i]; pick i selects the columns selects[i]
RECURSIVE Define(_, _, _, _, _, _)
Define(h, vs, first_sorted, chain, modes, selects) ==
    IF selects = <<>> THEN [heap |-> h, vars |-> vs]
    ELSE LET mode == IF Len(modes) < Len(selects) THEN "first" ELSE Head(modes)
             frame == CASE mode = "shared" -> [heap |-> h, qm_node |-> first_sorted]
                        [] mode = "other" -> sort_by(h, TheTable, <<"d">>)
                        [] OTHER -> sort_by(h, TheTable, chain)
             position == IF mode = "shared" THEN "last" ELSE "first"
             pick == pick_for_patient(frame.heap, frame.qm_node, position)
             cols == select_columns(pick.heap, pick.qm_node, Sorted(Head(selects)), vs)
         IN Define(cols.heap, cols.vars,
                   IF mode = "first" THEN frame.qm_node ELSE first_sorted, chain,
                   IF mode = "first" THEN modes ELSE Tail(modes), Tail(selects))

SeqsUpTo(S, n) == UNION {[1..k -> S] : k \in 1..n}

Definitions ==
    {[def |-> Define(<<SelectTable("events")>>, <<>>, None, chain, modes, selects),
      order_series |-> chain] :
        <<chain, modes, selects>> \in
            {<<c, m, s>> \in SeqsUpTo(SortNames, MaxSorts)
                             \X ({<<>>} \cup SeqsUpTo(Modes, MaxPicks - 1))
                             \X SeqsUpTo(SUBSET SelectNames \ {{}}, MaxPicks) :
                 Len(s) = Len(m) + 1}}

(***************************************************************************)
(* apply_transforms                                                        *)
(***************************************************************************)
\* the objects an object refers to, in the order copy.deepcopy visits them; the
\* members of a frozenset are taken by column name
Attributes(h, x) ==
    LET n == h[x]
        names == Sorted({h[c].name : c \in n.selected_columns})
        members == [i \in DOMAIN names |->
                       CHOOSE c \in n.selected_columns : h[c].name = names[i]]
    IN SelectSeq(<<n.source, n.sort_by, n.col>>, LAMBDA y : y # None) \o members

\* the objects copy.deepcopy reaches from `todo`, in the order it creates their
\* copies, and the memo: for each object reached, the number of its copy
RECURSIVE Preorder(_, _, _, _)
Preorder(h, todo, out, memo) ==
    IF todo = <<>> THEN [objects |-> out, memo |-> memo]
    ELSE IF memo[Head(todo)] # 0 THEN Preorder(h, Tail(todo), out, memo)
    ELSE Preorder(h, Attributes(h, Head(todo)) \o Tail(todo), Append(out, Head(todo)),
                  [memo EXCEPT ![Head(todo)] = Len(out) + 1])

\* copy.deepcopy: the copy of the object x, when the copies are the objects
\* created after the first `base` ones
CopyOfSame(x, memo, base) == x

CopyOf(x, memo, base) == base + memo[x]

\* copy.deepcopy of a mapping: new objects that refer to each other as the old
\* ones do
deepcopy(h, vs, base) ==
    LET pre == Preorder(h, vs, <<>>, [x \in DOMAIN h |-> 0])
        C(x) == IF x = None THEN None ELSE CopyOf(x, pre.memo, base)
    IN [objects |-> [i \in DOMAIN pre.objects |->
                        [h[pre.objects[i]] EXCEPT
                            !.source = C(@), !.sort_by = C(@), !.col = C(@),
                            !.selected_columns = {C(c) : c \in @}]],
        variables |-> [i \in DOMAIN vs |-> C(vs[i])]]

all_nodes_from_variables(h, vs) == UNION {all_nodes(h, vs[i]) : i \in DOMAIN vs}

\* get_dependers: `node in get_input_nodes(other_node)`, a test with ==
get_dependers(h, node, ns) ==
    {other_node \in ns : \E input \in get_input_nodes(h, other_node) : Eq(h, input, node)}

\* get_immediate_sorts: the Sort nodes under a row-pick, from top to bottom
RECURSIVE SortsFrom(_, _)
SortsFrom(h, source) ==
    IF source # None /\ h[source].cls = "Sort"
    THEN <<source>> \o SortsFrom(h, h[source].source)
    ELSE <<>>

get_immediate_sorts(h, node) == SortsFrom(h, h[node].source)

\* add_selected_columns_to_pick_row: the loop body for one row-pick
AddSelectedColumns(h, node, ns) ==
    LET dependers == get_dependers(h, node, ns)
        column_names == {h[c].name : c \in {c \in dependers : h[c].cls = "SelectColumn"}}
        names == Sorted(column_names)
        created == [i \in 1..Len(names) |-> SelectColumn(h[node].source, names[i])]
        selected_columns == {Len(h) + i : i \in 1..Len(names)}
    IN [h \o created EXCEPT ![node].cls = "PickOneRowPerPatientWithColumns",
                            ![node].selected_columns = selected_columns]

\* add_selected_columns_to_pick_row: the loop over `nodes`, whose row-picks
\* come in the order pick_order
RECURSIVE add_selected_columns_to_pick_row(_, _, _)
add_selected_columns_to_pick_row(h, pick_order, ns) ==
    IF pick_order = <<>> THEN h
    ELSE add_selected_columns_to_pick_row(AddSelectedColumns(h, Head(pick_order), ns),
                                          Tail(pick_order), ns)

\* make_sortable: the nodes created for the sort key of the column at `column`,
\* and the key itself
make_sortable(h, column) ==
    IF get_series_type(h, column) = "bool"
    THEN [heap |-> Append(h, Case(column)), sort_by |-> Len(h) + 1]
    ELSE [heap |-> h, sort_by |-> column]

\* include_all_selected_columns_in_sorts: the sorts still to be added
SortsToAddNone(column_names, existing_sorted_column_names) == {}

SortsToAdd(column_names, existing_sorted_column_names) ==
    column_names \ existing_sorted_column_names

\* include_all_selected_columns_in_sorts: the loop that puts one new Sort under
\* lowest_sort for each name
RECURSIVE AddSorts(_, _, _)
AddSorts(h, lowest_sort, ordered_sorts_to_add) ==
    IF ordered_sorts_to_add = <<>> THEN h
    ELSE LET column == Len(h) + 1
             h1 == Append(h, SelectColumn(h[lowest_sort].source, Head(ordered_sorts_to_add)))
             key == make_sortable(h1, column)
             new_sort == Len(key.heap) + 1
             h2 == Append(key.heap, Sort(h[lowest_sort].source, key.sort_by))
             h3 == [h2 EXCEPT ![lowest_sort].source = new_sort]
             h4 == [h3 EXCEPT ![h3[lowest_sort].sort_by].source = new_sort]
         IN AddSorts(h4, new_sort, Tail(ordered_sorts_to_add))

\* include_all_selected_columns_in_sorts: the loop body for one row-pick
IncludeSelectedColumns(h, node) ==
    LET sorts == get_immediate_sorts(h, node)
        column_names == {h[c].name : c \in h[node].selected_columns}
        existing_sorted_column_names ==
            {h[h[sorts[i]].sort_by].name :
                i \in {i \in DOMAIN sorts : h[h[sorts[i]].sort_by].cls = "SelectColumn"}}
        sorts_to_add == SortsToAdd(column_names, existing_sorted_column_names)
    IN IF h[node].cls # "PickOneRowPerPatientWithColumns" THEN h
       ELSE AddSorts(h, sorts[Len(sorts)], Sorted(sorts_to_add))

\* include_all_selected_columns_in_sorts: the loop over `nodes`, in the same
\* order
RECURSIVE include_all_selected_columns_in_sorts(_, _)
include_all_selected_columns_in_sorts(h, pick_order) ==
    IF pick_order = <<>> THEN h
    ELSE include_all_selected_columns_in_sorts(IncludeSelectedColumns(h, Head(pick_order)),
                                               Tail(pick_order))

\* apply_transforms: copy the argument, collect its nodes, run the two passes
\* over them, copy the outcome and return the copy. The IdentitySet yields the
\* nodes in an order that depends on their addresses. When the call returns the
\* working objects are garbage: the heap holds the objects the caller had and
\* the objects of the result.
apply_transforms ==
    /\ tf_pc = "ready"
    /\ \E copy \in {deepcopy(heap, arg_vars, Len(heap))} :
       \E h0 \in {heap \o copy.objects} :
       \E ns \in {all_nodes_from_variables(h0, copy.variables)} :
       \E pick_order \in Perms({x \in ns : IsPick(h0, x)}) :
       \E h1 \in {add_selected_columns_to_pick_row(h0, pick_order, ns)} :
       \E h2 \in {include_all_selected_columns_in_sorts(h1, pick_order)} :
       \E returned \in {deepcopy(h2, copy.variables, Len(heap))} :
          /\ heap' = SubSeq(h2, 1, Len(heap)) \o returned.objects
          /\ variables' = returned.variables
          /\ IF tf_round = 1
             THEN result1' = returned.variables /\ UNCHANGED result2
             ELSE result2' = returned.variables /\ UNCHANGED result1
          /\ kept' = kept \o returned.objects
    /\ tf_pc' = "returned"
    /\ UNCHANGED <<arg_vars, tf_round, tf_order_series>>
    /\ UNCHANGED notTransform

\* the caller passes the result of the first application to apply_transforms
ApplyAgain ==
    /\ tf_pc = "returned"
    /\ tf_round = 1
    /\ arg_vars' = result1
    /\ tf_round' = 2
    /\ tf_pc' = "ready"
    /\ UNCHANGED <<heap, kept, variables, result1, result2, tf_order_series>>
    /\ UNCHANGED notTransform

TransformInit ==
    /\ \E d \in Definitions :
          /\ heap = d.def.heap
          /\ arg_vars = d.def.vars
          /\ tf_order_series = d.order_series
    /\ kept = heap
    /\ variables = arg_vars
    /\ tf_pc = "ready"
    /\ tf_round = 1
    /\ result1 = <<>>
    /\ result2 = <<>>

TransformNext == apply_transforms \/ ApplyAgain

\* the nodes of the mapping apply_transforms returned last
ResultNodes == all_nodes_from_variables(heap, variables)
ResultPicks == {x \in ResultNodes : IsPick(heap, x)}

\* the names of the columns selected from the row-pick p in the returned graph
NamesSelectedFrom(p) ==
    {heap[v].name :
        v \in {v \in ResultNodes :
                  heap[v].cls = "SelectColumn" /\ Eq(heap, heap[v].source, p)}}

\* the column a Sort is keyed on: its sort_by column, or the column that
\* make_sortable wrapped
SortKeyName(sort) ==
    LET key == heap[sort].sort_by IN
    IF heap[key].cls = "SelectColumn" THEN heap[key].name
    ELSE IF heap[key].cls = "Case" THEN heap[heap[key].col].name
    ELSE ""

SortKeyNames(p) ==
    LET sorts == get_immediate_sorts(heap, p) IN
    {SortKeyName(sorts[i]) : i \in DOMAIN sorts}

\* C16: apply_transforms leaves every object the caller passed in as it was:
\* the same class, the same fields, the same sources.
C16_ArgumentUntouched ==
    \A x \in DOMAIN kept : heap[x] = kept[x]

C16_Witness ==
    /\ tf_pc = "returned"
    /\ tf_round = 1
    /\ \E p \in ResultPicks :
          /\ heap[p].cls = "PickOneRowPerPatientWithColumns"
          /\ Cardinality(heap[p].selected_columns) = 2
          /\ Len(get_immediate_sorts(heap, p)) = 3
    /\ \E x \in DOMAIN heap : heap[x].cls = "PickOneRowPerPatient"

\* C17: in the graph apply_transforms returns, the Sort chain under each
\* row-pick has a sort keyed on every column selected from that row-pick.
C17_SortsCoverSelectedColumns ==
    tf_pc = "returned" =>
        \A p \in ResultPicks : NamesSelectedFrom(p) \subseteq SortKeyNames(p)

C17_Witness ==
    /\ tf_pc = "returned"
    /\ tf_round = 1
    /\ Cardinality(ResultPicks) = 2
    /\ \E p \in ResultPicks :
          /\ NamesSelectedFrom(p) = {"a", "f"}
          /\ Len(get_immediate_sorts(heap, p)) = 4

\* the row-pick the first variable of the definition selects from
FirstPick == heap[arg_vars[1]].source

\* the sort keys under a row-pick, highest priority first: the query model
\* gives the outermost Sort of a stack the highest priority
SortPriority(p) ==
    LET sorts == get_immediate_sorts(heap, p) IN
    [i \in DOMAIN sorts |-> SortKeyName(sorts[i])]

\* C26: sort_by(s1, ..., sn) builds one Sort per series on top of the frame,
\* s1 outermost and sn innermost, so that the priority of the series is the
\* order in which they were given.
C26_SortByOrder ==
    tf_round = 1 =>
        LET sorts == get_immediate_sorts(heap, FirstPick) IN
        /\ SortPriority(FirstPick) = tf_order_series
        /\ heap[sorts[Len(sorts)]].source = TheTable
        /\ \A i \in DOMAIN sorts :
              /\ heap[heap[sorts[i]].sort_by].cls = "SelectColumn"
              /\ heap[heap[sorts[i]].sort_by].source = TheTable

C26_Witness ==
    /\ tf_round = 1
    /\ tf_pc = "returned"
    /\ tf_order_series = <<"d", "a">>
    /\ SortKeyName(heap[FirstPick].source) = "d"
    /\ SortKeyName(heap[heap[FirstPick].source].source) = "a"

\* the names of the columns recorded on a row-pick as its selected_columns
SelectedColumnNames(p) == {heap[c].name : c \in heap[p].selected_columns}

\* the Sort chains the definitions give a row-pick, as sort_by was called
UserChains == {tf_order_series, <<"d">>}

\* the row-picks of the returned graph taken from the same sorted frame as p
SameFrame(p) == {q \in ResultPicks : heap[q].source = heap[p].source}

Ascending(names) ==
    \A i, j \in DOMAIN names :
        i < j => \E k, l \in DOMAIN ColumnNames :
                    k < l /\ ColumnNames[k] = names[i] /\ ColumnNames[l] = names[j]

\* C24: in the graph the transform returns, the Sort chain under each row-pick
\* is the user's chain, in the user's order, followed by exactly one added Sort
\* for each selected column name that is not a direct column sort key of the
\* user's chain, the added Sorts being in lexicographic order of column name.
C24_AddedSortsBelowInNameOrder ==
    (tf_pc = "returned" /\ tf_round = 1) =>
        \A p \in ResultPicks :
            \E user \in UserChains :
                LET chain == SortPriority(p)
                    added == SubSeq(chain, Len(user) + 1, Len(chain))
                IN /\ Len(chain) >= Len(user)
                   /\ SubSeq(chain, 1, Len(user)) = user
                   /\ Ascending(added)
                   /\ Range(added) =
                         UNION {SelectedColumnNames(q) : q \in SameFrame(p)} \ Range(user)

\* C18: the mapping returned by a second application equals the mapping
\* returned by the first, variable by variable.
C18_Idempotent ==
    (tf_pc = "returned" /\ tf_round = 2) =>
        \A i \in DOMAIN result1 : Eq(heap, result1[i], result2[i])

\* C19: after the transform each row-pick carries exactly the columns selected
\* from it: SelectColumn(P.source, name) for each name with a SelectColumn(P,
\* name) in the graph, and nothing else.
C19_SelectedColumnsExact ==
    (tf_pc = "returned" /\ tf_round = 1) =>
        \A p \in ResultPicks :
            /\ heap[p].cls = "PickOneRowPerPatientWithColumns"
            /\ \A c \in heap[p].selected_columns :
                  heap[c].cls = "SelectColumn" /\ heap[c].source = heap[p].source
            /\ {heap[c].name : c \in heap[p].selected_columns} = NamesSelectedFrom(p)

(***************************************************************************)
(* Dataset                                                                 *)
(***************************************************************************)
MaxValues == 2

\* the names a dataset definition may try to bind
NamePopulation == <<"p", "o", "p", "u", "l", "a", "t", "i", "o", "n">>
NameVariables == <<"v", "a", "r", "i", "a", "b", "l", "e", "s">>
AttrNames ==
    {NamePopulation, NameVariables, <<"_", "_", "x">>, <<"f", "o", "o">>, <<"b", "a", "r">>}

\* str.startswith
startswith(name, prefix) ==
    Len(name) >= Len(prefix) /\ SubSeq(name, 1, Len(prefix)) = prefix

\* the values a dataset definition may try to bind: is_series says it is a
\* BaseSeries, one_row that has_one_row_per_patient holds of its qm_node,
\* valid_population that validate_population_definition accepts it
DatasetValues ==
    {v \in [is_series : BOOLEAN, one_row : BOOLEAN, valid_population : BOOLEAN,
            id : 1..MaxValues] :
        v.valid_population => (v.is_series /\ v.one_row)}

\* `name in self.variables`
Bound(d, name) == \E i \in DOMAIN d : d[i][1] = name

\* self.variables[name]
Lookup(d, name) == d[CHOOSE i \in DOMAIN d : d[i][1] = name][2]

\* self.variables[name] = value: a new key goes to the end, an old key keeps
\* its place and gets the new value
DictSet(d, name, value) ==
    IF Bound(d, name)
    THEN [i \in DOMAIN d |-> IF d[i][1] = name THEN <<name, value>> ELSE d[i]]
    ELSE Append(d, <<name, value>>)

DatasetInit ==
    /\ ds_variables = <<>>
    /\ ds_result = "new"

\* the assignment to self.variables is the last statement of set_population
\* and of __setattr__: it is reached only when nothing before it has raised
AssignedFirst(d, name, value, accepted) == DictSet(d, name, value)

AssignedLast(d, name, value, accepted) ==
    IF accepted THEN DictSet(d, name, value) ELSE d

\* Dataset.set_population
set_population ==
    \E population \in DatasetValues :
        /\ ds_variables' = AssignedLast(ds_variables, NamePopulation, population,
                                        population.valid_population)
        /\ ds_result' = IF population.valid_population THEN "ok" ELSE "ValidationError"
        /\ UNCHANGED notDataset

\* Dataset.__setattr__: what the checks before the assignment raise
SetattrRaises(d, name, value) ==
    IF \/ name = NamePopulation
       \/ Bound(d, name)
       \/ name = NameVariables
       \/ startswith(name, <<"_", "_">>)
    THEN "AttributeError"
    ELSE IF ~value.is_series \/ ~value.one_row
    THEN "TypeError"
    ELSE "ok"

\* Dataset.__setattr__
setattr ==
    \E name \in AttrNames, value \in DatasetValues :
        /\ ds_variables' = AssignedLast(ds_variables, name, value,
                                        SetattrRaises(ds_variables, name, value) = "ok")
        /\ ds_result' = SetattrRaises(ds_variables, name, value)
        /\ UNCHANGED notDataset

\* Dataset.__getattr__
getattr ==
    \E name \in AttrNames :
        /\ ds_result' = IF Bound(ds_variables, name)
                        THEN <<"value", Lookup(ds_variables, name)>>
                        ELSE "AttributeError"
        /\ UNCHANGED ds_variables
        /\ UNCHANGED notDataset

DatasetNext == set_population \/ setattr \/ getattr

DatasetErrors == {"AttributeError", "TypeError", "ValidationError"}

\* C29: a dataset operation that raises, an attribute assignment rejected for
\* any reason or a set_population whose validation fails, leaves the variables
\* mapping and its order as they were before the call.
C29_RaisingLeavesVariables ==
    [][ds_result' \in DatasetErrors => ds_variables' = ds_variables]_vars

C29_Witness ==
    /\ ds_result = "ValidationError"
    /\ Len(ds_variables) = 3
    /\ ds_variables[2][1] = NamePopulation

\* C20: once a name of a dataset is bound, a variable or the population, the
\* value bound to it never changes, whatever operations follow.
C20_BindingsNeverChange ==
    [][\A name \in AttrNames :
          Bound(ds_variables, name) =>
              /\ Bound(ds_variables', name)
              /\ Lookup(ds_variables', name) = Lookup(ds_variables, name)]_vars

(***************************************************************************)
(* Division: the operators of NumericFunctions and their lowering          *)
(***************************************************************************)
MaxInt == 2

\* SQL values: NULL, a number (held as the exact quotient num / den), or the
\* error a division by zero raises
Null == [kind |-> "null", num |-> 0, den |-> 1]
Num(n) == [kind |-> "number", num |-> n, den |-> 1]
DivideByZero == [kind |-> "error", num |-> 0, den |-> 1]

IntColumns == {"i1", "i2"}
Statics == (-MaxInt)..MaxInt

\* the operands of an expression: an ehrQL series, or a static Python value
SeriesOperand(name) == [kind |-> "series", name |-> name, value |-> 0]
StaticOperand(value) == [kind |-> "static", name |-> "", value |-> value]

\* query model nodes: Value, SelectColumn, and the two division functions
NoNode == [cls |-> "", name |-> "", value |-> 0]
Value(value) == [cls |-> "Value", name |-> "", value |-> value]
Column(name) == [cls |-> "SelectColumn", name |-> name, value |-> 0]
Function(cls, lhs, rhs) == [cls |-> cls, lhs |-> lhs, rhs |-> rhs]
NoFunction == Function("", NoNode, NoNode)

\* _convert: a series gives its qm_node, a static value is wrapped in a Value
_convert(arg) ==
    IF arg.kind = "series" THEN Column(arg.name) ELSE Value(arg.value)

\* _apply(qm_cls, *args)
_apply(qm_cls, lhs, rhs) == Function(qm_cls, _convert(lhs), _convert(rhs))

\* BaseSeries._cast: a no-op for int series
_cast(value) == value

\* NumericFunctions.__truediv__ and __floordiv__
__truediv__(self, other) == _apply("TrueDivide", self, _cast(other))
__floordiv__(self, other) == _apply("FloorDivide", self, _cast(other))

\* NumericFunctions.__rtruediv__ and __rfloordiv__: `return self / other`,
\* `return self // other`
__rtruediv__(self, other) == __truediv__(self, other)
__rfloordiv__(self, other) == __floordiv__(self, other)

\* Python's evaluation of `left op right`: the method of the left operand
\* when it is a series, else the reflected method of the right operand
BinaryOp(op, left, right) ==
    IF left.kind = "series"
    THEN IF op = "/" THEN __truediv__(left, right) ELSE __floordiv__(left, right)
    ELSE IF op = "/" THEN __rtruediv__(right, left) ELSE __rfloordiv__(right, left)

\* the expressions a dataset definition can write with one division
WrittenExprs ==
    {w \in [op : {"/", "//"},
            left : {SeriesOperand(n) : n \in IntColumns}
                   \cup {StaticOperand(c) : c \in Statics},
            right : {SeriesOperand(n) : n \in IntColumns}
                    \cup {StaticOperand(c) : c \in Statics}] :
        w.left.kind = "series" \/ w.right.kind = "series"}

NoExpr == [op |-> "", left |-> StaticOperand(0), right |-> StaticOperand(0)]

Dialects == {"base", "mssql"}

\* SQL: NULLIF(a, b) is NULL when a = b, else a
NullIfNever(a, b) == a

NullIf(a, b) ==
    IF a.kind = "number" /\ b.kind = "number" /\ a.num * b.den = b.num * a.den
    THEN Null ELSE a

\* SQL: a / b is NULL when an operand is NULL and fails when b is zero
SqlDivide(a, b) ==
    IF a.kind = "error" \/ b.kind = "error" THEN DivideByZero
    ELSE IF a.kind = "null" \/ b.kind = "null" THEN Null
    ELSE IF b.num = 0 THEN DivideByZero
    ELSE [kind |-> "number", num |-> a.num * b.den, den |-> a.den * b.num]

\* SQL: FLOOR(x)
SqlFloor(x) ==
    IF x.kind # "number" THEN x
    ELSE IF x.den > 0 THEN Num(x.num \div x.den)
    ELSE Num((0 - x.num) \div (0 - x.den))

\* the SQL value of an operand for the row
get_expr(node, row) ==
    IF node.cls = "Value" THEN Num(node.value) ELSE row[node.name]

\* MSSQLQueryEngine.truedivide: lhs / NULLIF(rhs, 0.0)
MSSQLTruedivide(lhs, rhs) ==
    LET rhs_null_if_zero == NullIf(rhs, Num(0)) IN SqlDivide(lhs, rhs_null_if_zero)

\* the generic strategy of the other engines: lhs / NULLIF(rhs, 0)
BaseTruedivide(lhs, rhs) == SqlDivide(lhs, NullIf(rhs, Num(0)))

truedivide(dialect, lhs, rhs) ==
    IF dialect = "mssql" THEN MSSQLTruedivide(lhs, rhs) ELSE BaseTruedivide(lhs, rhs)

\* floordivide: FLOOR applied to the guarded division
floordivide(dialect, lhs, rhs) == SqlFloor(truedivide(dialect, lhs, rhs))

DivisionInit ==
    /\ dv_row \in [IntColumns -> {Null} \cup {Num(n) : n \in Statics}]
    /\ dv_dialect \in Dialects
    /\ dv_written = NoExpr
    /\ dv_expr = NoFunction
    /\ dv_result = Null
    /\ dv_pc = "start"

\* the dataset definition evaluates `left / right` or `left // right`
BuildDivision ==
    /\ dv_pc = "start"
    /\ \E w \in WrittenExprs :
          /\ dv_written' = w
          /\ dv_expr' = BinaryOp(w.op, w.left, w.right)
    /\ dv_pc' = "built"
    /\ UNCHANGED <<dv_row, dv_dialect, dv_result>>
    /\ UNCHANGED notDivision

\* the query engine computes the node for the patient's row
EvaluateDivision ==
    /\ dv_pc = "built"
    /\ dv_result' =
          IF dv_expr.cls = "TrueDivide"
          THEN truedivide(dv_dialect, get_expr(dv_expr.lhs, dv_row),
                          get_expr(dv_expr.rhs, dv_row))
          ELSE floordivide(dv_dialect, get_expr(dv_expr.lhs, dv_row),
                           get_expr(dv_expr.rhs, dv_row))
    /\ dv_pc' = "evaluated"
    /\ UNCHANGED <<dv_row, dv_dialect, dv_written, dv_expr>>
    /\ UNCHANGED notDivision

DivisionNext == BuildDivision \/ EvaluateDivision

\* C21: TrueDivide and FloorDivide give NULL for every row whose denominator
\* is zero, on every dialect: no error and no number.
C21_DivisionByZeroIsNull ==
    (dv_pc = "evaluated" /\ get_expr(dv_expr.rhs, dv_row) = Num(0)) =>
        dv_result = Null

C21_Witness ==
    /\ dv_pc = "evaluated"
    /\ dv_dialect = "mssql"
    /\ dv_expr = Function("TrueDivide", Column("i1"), Column("i2"))
    /\ dv_row["i1"] = Num(1)
    /\ dv_row["i2"] = Num(0)
    /\ dv_result = Null

\* C30: for a constant c and a series s, `c / s` and `c // s` build a division
\* whose numerator is c and whose denominator is s.
C30_ReflectedDivision ==
    (dv_pc # "start" /\ dv_written.left.kind = "static") =>
        /\ dv_expr.lhs = Value(dv_written.left.value)
        /\ dv_expr.rhs = Column(dv_written.right.name)

(***************************************************************************)
(* Dates: MSSQLQueryEngine.date_add_months                                 *)
(***************************************************************************)
MaxMonths == 2

Years == {2020, 2021}

Date(y, m, d) == [year |-> y, month |-> m, day |-> d]
NoDate == Date(0, 0, 0)

IsLeapYear(y) == (y % 4 = 0 /\ y % 100 # 0) \/ y % 400 = 0

DaysInMonth(y, m) ==
    IF m = 2 THEN (IF IsLeapYear(y) THEN 29 ELSE 28)
    ELSE IF m \in {4, 6, 9, 11} THEN 30 ELSE 31

Dates ==
    {Date(y, m, d) : <<y, m, d>> \in
        {<<y, m, d>> \in Years \X (1..12) \X (1..31) : d <= DaysInMonth(y, m)}}

\* the month num_months after the month of date, as <<year, month>>
MonthAfter(date, num_months) ==
    LET total == date.year * 12 + (date.month - 1) + num_months IN
    <<total \div 12, (total % 12) + 1>>

Min(a, b) == IF a < b THEN a ELSE b

\* adding months with the day clipped to the last day of the result month: what
\* the query model's DateAddMonths means, and what MSSQL's DATEADD(month, n,
\* date) computes
DateAddMonthsClipped(date, num_months) ==
    LET ym == MonthAfter(date, num_months) IN
    Date(ym[1], ym[2], Min(date.day, DaysInMonth(ym[1], ym[2])))

\* SQLFunction("DATEADD", text("month"), num_months, date)
SqlDateAddMonth(num_months, date) == DateAddMonthsClipped(date, num_months)

NextDay(date) ==
    IF date.day < DaysInMonth(date.year, date.month)
    THEN Date(date.year, date.month, date.day + 1)
    ELSE IF date.month < 12 THEN Date(date.year, date.month + 1, 1)
    ELSE Date(date.year + 1, 1, 1)

\* date_add_days: SQLFunction("DATEADD", text("day"), num_days, date), for
\* the numbers of days date_add_months adds
RECURSIVE date_add_days(_, _)
date_add_days(date, num_days) ==
    IF num_days = 0 THEN date ELSE date_add_days(NextDay(date), num_days - 1)

\* get_date_part(date, "DAY")
get_date_part_day(date) == date.day

\* date_add_months
date_add_months(date, num_months) ==
    LET new_date == SqlDateAddMonth(num_months, date)
        correction ==
            IF get_date_part_day(new_date) < get_date_part_day(date) THEN 1 ELSE 0
    IN date_add_days(new_date, correction)

DateInit ==
    /\ da_date \in Dates
    /\ da_num_months \in (-MaxMonths)..MaxMonths
    /\ da_result = NoDate
    /\ da_pc = "start"

\* the engine evaluates its expression for DateAddMonths on the row
EvaluateDateAddMonths ==
    /\ da_pc = "start"
    /\ da_result' = date_add_months(da_date, da_num_months)
    /\ da_pc' = "done"
    /\ UNCHANGED <<da_date, da_num_months>>
    /\ UNCHANGED notDate

DateNext == EvaluateDateAddMonths

\* C22: adding N months to a date whose day does not exist in the result month
\* gives the last day of the result month, and the MSSQL expression for
\* DateAddMonths computes that date.
C22_AddMonthsClips ==
    da_pc = "done" =>
        LET ym == MonthAfter(da_date, da_num_months) IN
        /\ da_result = DateAddMonthsClipped(da_date, da_num_months)
        /\ da_date.day > DaysInMonth(ym[1], ym[2]) =>
              da_result = Date(ym[1], ym[2], DaysInMonth(ym[1], ym[2]))

(***************************************************************************)
(* typing_utils.type_matches                                               *)
(***************************************************************************)
\* type specifications: typing.Any, a class, a TypeVar, a parametrised generic
\* such as dict[int, str], a Union; NoneSpec is Python's None, which
\* typing.get_origin returns for a class
TypeSpec(kind, name, args) == [kind |-> kind, name |-> name, args |-> args]
AnyType == TypeSpec("Any", "Any", <<>>)
Class(name) == TypeSpec("class", name, <<>>)
TypeVar(name) == TypeSpec("TypeVar", name, <<>>)
Generic(origin, args) == TypeSpec("generic", origin, args)
Union(args) == TypeSpec("Union", "Union", args)
NoneSpec == TypeSpec("None", "None", <<>>)

\* a type variable that has no entry in typevar_context
Unbound == TypeSpec("unbound", "", <<>>)

ClassNames == {"int", "str", "bool"}

\* T = TypeVar("T"); N = TypeVar("N", int, float)
TypeVarNames == {"T", "N"}
__constraints__(name) ==
    IF name = "N" THEN <<Class("int"), Class("float")>> ELSE <<>>

\* typing.get_origin and typing.get_args
get_origin(typespec) ==
    IF typespec.kind = "generic" THEN Class(typespec.name)
    ELSE IF typespec.kind = "Union" THEN Union(<<>>)
    ELSE NoneSpec

get_args(typespec) == typespec.args

\* issubclass, for the classes above: bool is a subclass of int
issubclass(cls, target) ==
    /\ cls.kind = "class"
    /\ cls.name = target.name \/ (cls.name = "bool" /\ target.name = "int")

\* line 71: a bound variable rejects a type other than its value, except Any
MismatchNever(bound, spec) == FALSE

Mismatch(bound, spec) == spec # AnyType /\ bound # spec

Matched(ok, ctx) == [ok |-> ok, ctx |-> ctx]

\* type_matches(spec, target_spec, typevar_context): what it returns and the
\* context it leaves; AnyMatches is any(type_matches(spec, t, ctx) for t in
\* targets), AllMatch the loop over zip(spec_args, target_spec_args)
RECURSIVE type_matches(_, _, _), AnyMatches(_, _, _), AllMatch(_, _, _)
type_matches(spec, target_spec, ctx) ==
    IF target_spec.kind = "TypeVar"
    THEN LET constrained ==
                 IF __constraints__(target_spec.name) # <<>>
                 THEN AnyMatches(spec, __constraints__(target_spec.name), ctx)
                 ELSE Matched(TRUE, ctx)
             c == constrained.ctx
         IN IF ~constrained.ok THEN Matched(FALSE, c)
            ELSE IF c[target_spec.name] # Unbound /\ c[target_spec.name] # AnyType
            THEN Matched(~Mismatch(c[target_spec.name], spec), c)
            ELSE Matched(TRUE, [c EXCEPT ![target_spec.name] = spec])
    ELSE IF spec = AnyType \/ target_spec = AnyType THEN Matched(TRUE, ctx)
    ELSE IF get_origin(target_spec) = NoneSpec
    THEN IF spec = Class("bool") /\ target_spec = Class("int")
         THEN Matched(FALSE, ctx)
         ELSE Matched(spec # NoneSpec /\ issubclass(spec, target_spec), ctx)
    ELSE IF target_spec.kind = "Union"
    THEN AnyMatches(spec, get_args(target_spec), ctx)
    ELSE LET origin == type_matches(get_origin(spec), get_origin(target_spec), ctx) IN
         IF ~origin.ok THEN Matched(FALSE, origin.ctx)
         ELSE AllMatch(get_args(spec), get_args(target_spec), origin.ctx)

AnyMatches(spec, targets, ctx) ==
    IF targets = <<>> THEN Matched(FALSE, ctx)
    ELSE LET first == type_matches(spec, Head(targets), ctx) IN
         IF first.ok THEN first ELSE AnyMatches(spec, Tail(targets), first.ctx)

AllMatch(spec_args, target_spec_args, ctx) ==
    IF spec_args = <<>> \/ target_spec_args = <<>> THEN Matched(TRUE, ctx)
    ELSE LET first == type_matches(Head(spec_args), Head(target_spec_args), ctx) IN
         IF ~first.ok THEN first
         ELSE AllMatch(Tail(spec_args), Tail(target_spec_args), first.ctx)

\* the types of values: classes, Any (get_typespec of an empty container),
\* and dicts and sets of those
ElementTypes == {Class(n) : n \in ClassNames} \cup {AnyType}

SpecTypes ==
    ElementTypes
    \cup {Generic("dict", <<k, v>>) : k \in ElementTypes, v \in ElementTypes}
    \cup {Generic("set", <<e>>) : e \in ElementTypes}

\* the targets of signatures: containers over type variables, classes and
\* unions
TargetSpecs ==
    {Generic("dict", <<TypeVar("T"), TypeVar("T")>>),
     Generic("dict", <<TypeVar("T"), TypeVar("N")>>),
     Generic("dict", <<Class("str"), TypeVar("T")>>),
     Generic("dict", <<TypeVar("N"), Union(<<Class("int"), Class("str")>>)>>),
     Generic("set", <<TypeVar("T")>>),
     Generic("set", <<TypeVar("N")>>),
     Generic("set", <<AnyType>>)}

NoCall ==
    [spec |-> NoneSpec, target_spec |-> NoneSpec,
     before |-> [v \in TypeVarNames |-> Unbound], returned |-> FALSE]

TypingInit ==
    /\ typevar_context = [v \in TypeVarNames |-> Unbound]
    /\ tm_call = NoCall

\* one call of type_matches with the shared context
CallTypeMatches ==
    /\ \E spec \in SpecTypes, target_spec \in TargetSpecs :
       \E m \in {type_matches(spec, target_spec, typevar_context)} :
          /\ typevar_context' = m.ctx
          /\ tm_call' = [spec |-> spec, target_spec |-> target_spec,
                         before |-> typevar_context, returned |-> m.ok]
    /\ UNCHANGED notTyping

\* the caller starts again with a new dict
NewContext ==
    /\ tm_call # NoCall
    /\ typevar_context' = [v \in TypeVarNames |-> Unbound]
    /\ tm_call' = NoCall
    /\ UNCHANGED notTyping

TypingNext == CallTypeMatches \/ NewContext

\* the types that stand in spec where the type variable v stands in target_spec
RECURSIVE Occurrences(_, _, _)
Occurrences(spec, target_spec, v) ==
    IF target_spec = TypeVar(v) THEN {spec}
    ELSE IF target_spec.kind = "generic" /\ spec.kind = "generic"
    THEN UNION {Occurrences(spec.args[i], target_spec.args[i], v) :
                   i \in DOMAIN spec.args \cap DOMAIN target_spec.args}
    ELSE {}

LastOccurrences(v) == Occurrences(tm_call.spec, tm_call.target_spec, v)

MaxOffset == 1
Offsets == (-MaxOffset)..MaxOffset

\* the exponents of the widths' extremes, and 11 for the years 1900 .. 2100
Exponents == {7, 8, 11, 15, 16, 31, 32, 63, 64}

Integer(sign, exp, off) == [known |-> TRUE, sign |-> sign, exp |-> exp, off |-> off]
Small(n) == Integer(0, 0, n)
Shifted(k) == Integer(1, k, 0)
\* a bound that is not known: None
NoBound == [known |-> FALSE, sign |-> 0, exp |-> 0, off |-> 0]

Bounds ==
    {Small(n) : n \in Offsets}
    \cup {Integer(sign, exp, off) : sign \in {-1, 1}, exp \in Exponents, off \in Offsets}

RankStep == 100
Rank(n) == n.sign * n.exp * RankStep + n.off

LessThan(a, b) == Rank(a) < Rank(b)
AtMost(a, b) == Rank(a) <= Rank(b)

\* abs(n) and max(a, b)
abs(n) ==
    IF Rank(n) >= 0 THEN n
    ELSE IF n.sign = 0 THEN Small(-n.off)
    ELSE Integer(1, n.exp, -n.off)

max(a, b) == IF LessThan(a, b) THEN b ELSE a

\* the pyarrow integer types, their widths and the least and the greatest value
\* of each
SignedTypes == {"int8", "int16", "int32", "int64"}
UnsignedTypes == {"uint8", "uint16", "uint32", "uint64"}

Width(type) ==
    CASE type \in {"int8", "uint8"} -> 8
      [] type \in {"int16", "uint16"} -> 16
      [] type \in {"int32", "uint32"} -> 32
      [] type \in {"int64", "uint64"} -> 64

Least(type) ==
    IF type \in UnsignedTypes THEN Small(0) ELSE Integer(-1, Width(type) - 1, 0)

Greatest(type) ==
    IF type \in UnsignedTypes THEN Integer(1, Width(type), -1)
    ELSE Integer(1, Width(type) - 1, -1)

smallest_int_type_for_range(minimum, maximum) ==
    IF ~minimum.known \/ ~maximum.known THEN "int64"
    ELSE LET signed == LessThan(minimum, Small(0))
             abs_max == max(maximum, abs(minimum))
         IN IF signed
            THEN IF LessThan(abs_max, Shifted(7)) THEN "int8"
                 ELSE IF LessThan(abs_max, Shifted(15)) THEN "int16"
                 ELSE IF LessThan(abs_max, Shifted(31)) THEN "int32"
                 ELSE IF LessThan(abs_max, Shifted(63)) THEN "int64"
                 ELSE "AssertionError"
            ELSE IF LessThan(abs_max, Shifted(8)) THEN "uint8"
                 ELSE IF LessThan(abs_max, Shifted(16)) THEN "uint16"
                 ELSE IF LessThan(abs_max, Shifted(32)) THEN "uint32"
                 ELSE IF LessThan(abs_max, Shifted(64)) THEN "uint64"
                 ELSE "AssertionError"

\* a column's bounds: both known with minimum <= maximum, or one of them unknown
ArrowInit ==
    /\ ar_minimum \in Bounds \cup {NoBound}
    /\ ar_maximum \in Bounds \cup {NoBound}
    /\ (ar_minimum.known /\ ar_maximum.known) => AtMost(ar_minimum, ar_maximum)
    /\ ar_type = ""
    /\ ar_pc = "called"

\* get_field_and_convertor asks for the type of the column
GetField ==
    /\ ar_pc = "called"
    /\ ar_type' = smallest_int_type_for_range(ar_minimum, ar_maximum)
    /\ ar_pc' = "returned"
    /\ UNCHANGED <<ar_minimum, ar_maximum>>
    /\ UNCHANGED notArrow

ArrowNext == GetField

\* the types of the wanted signedness that hold every value of the range
Holding(minimum, maximum) ==
    {type \in (IF AtMost(Small(0), minimum) THEN UnsignedTypes ELSE SignedTypes) :
        AtMost(Least(type), minimum) /\ AtMost(maximum, Greatest(type))}

\* C27: for known bounds minimum <= maximum that some type of the wanted
\* signedness can hold, smallest_int_type_for_range returns the narrowest such
\* type, also when a bound is the least or the greatest value of a width.
C27_NarrowestType ==
    (ar_pc = "returned" /\ ar_minimum.known /\ ar_maximum.known) =>
        LET holding == Holding(ar_minimum, ar_maximum) IN
        holding # {} =>
            /\ ar_type \in holding
            /\ \A type \in holding : Width(ar_type) <= Width(type)

\* the scheduler alone: nothing is executed
ResultsIdle ==
    /\ n_setup = 1
    /\ n_cleanup = 1
    /\ table_data = {}
    /\ batch_size = 1
    /\ gr_pc = "idle"
    /\ executed = <<>>
    /\ min_key = <<>>
    /\ batch = <<>>
    /\ row_count = 0
    /\ batch_count = 1
    /\ delivered = <<>>
    /\ call_count = 0
    /\ conn_open = FALSE
    /\ sql_strings = <<<<"idle", 0>>>>

\* no column is being written
ArrowIdle ==
    /\ ar_minimum = NoBound
    /\ ar_maximum = NoBound
    /\ ar_type = ""
    /\ ar_pc = "idle"

\* no type is being matched
TypingIdle ==
    /\ typevar_context = <<>>
    /\ tm_call = NoCall

\* no date is being computed
DateIdle ==
    /\ da_date = NoDate
    /\ da_num_months = 0
    /\ da_result = NoDate
    /\ da_pc = "idle"

\* no division is being evaluated
DivisionIdle ==
    /\ dv_row = <<>>
    /\ dv_dialect = "idle"
    /\ dv_written = NoExpr
    /\ dv_expr = NoFunction
    /\ dv_result = Null
    /\ dv_pc = "idle"

\* no dataset is being defined
DatasetIdle ==
    /\ ds_variables = <<>>
    /\ ds_result = "idle"

\* no dataset is being transformed
TransformIdle ==
    /\ heap = <<>>
    /\ kept = <<>>
    /\ arg_vars = <<>>
    /\ variables = <<>>
    /\ tf_pc = "idle"
    /\ tf_round = 1
    /\ result1 = <<>>
    /\ result2 = <<>>
    /\ tf_order_series = <<>>

\* no query is being retried
RetryIdle ==
    /\ temp_database_name = <<>>
    /\ rt_max_retries = 0
    /\ rt_retry_sleep = 0
    /\ rt_backoff = 1
    /\ rt_rows = <<>>
    /\ rt_pc = "idle"
    /\ rt_retries = 0
    /\ rt_next_sleep = 0
    /\ rt_sleeps = <<>>
    /\ rt_attempts = <<>>
    /\ rt_read = <<>>
    /\ rt_rollbacks = 0
    /\ rt_conn = 0
    /\ rt_conn_count = 0
    /\ rt_result = <<>>

\* execution alone: the scheduler has returned
SchedIdle ==
    /\ clause = Clause("node", PlainTable, {})
    /\ setup_of = [t \in TempTables |-> <<>>]
    /\ cleanup_of = [t \in TempTables |-> <<>>]
    /\ clauses = <<>>
    /\ table_levels = [t \in TempTables |-> NoLevel]
    /\ level_keys = <<>>
    /\ observed = {}
    /\ tables = <<>>
    /\ setup_queries = <<>>
    /\ cleanup_queries = <<>>
    /\ sched_pc = "idle"

OthersIdle == DivisionIdle /\ DateIdle /\ TypingIdle /\ ArrowIdle

Init == SchedInit /\ ResultsIdle /\ RetryIdle /\ TransformIdle /\ DatasetIdle /\ OthersIdle
Next == SchedNext
Spec == Init /\ [][Next]_vars

ResultsSpecInit ==
    ResultsInit /\ SchedIdle /\ RetryIdle /\ TransformIdle /\ DatasetIdle /\ OthersIdle
ResultsSpec == ResultsSpecInit /\ [][ResultsNext]_vars

RetrySpecInit ==
    RetryInit /\ SchedIdle /\ ResultsIdle /\ TransformIdle /\ DatasetIdle /\ OthersIdle
RetrySpec == RetrySpecInit /\ [][RetryNext]_vars

TransformSpecInit ==
    TransformInit /\ SchedIdle /\ ResultsIdle /\ RetryIdle /\ DatasetIdle /\ OthersIdle
TransformSpec == TransformSpecInit /\ [][TransformNext]_vars

DatasetSpecInit ==
    DatasetInit /\ SchedIdle /\ ResultsIdle /\ RetryIdle /\ TransformIdle /\ OthersIdle
DatasetSpec == DatasetSpecInit /\ [][DatasetNext]_vars

\* the five above, idle
BackEndIdle == SchedIdle /\ ResultsIdle /\ RetryIdle /\ TransformIdle /\ DatasetIdle

DivisionSpecInit == DivisionInit /\ BackEndIdle /\ DateIdle /\ TypingIdle /\ ArrowIdle
DivisionSpec == DivisionSpecInit /\ [][DivisionNext]_vars

DateSpecInit == DateInit /\ BackEndIdle /\ DivisionIdle /\ TypingIdle /\ ArrowIdle
DateSpec == DateSpecInit /\ [][DateNext]_vars

TypingSpecInit == TypingInit /\ BackEndIdle /\ DivisionIdle /\ DateIdle /\ ArrowIdle
TypingSpec == TypingSpecInit /\ [][TypingNext]_vars

ArrowSpecInit == ArrowInit /\ BackEndIdle /\ DivisionIdle /\ DateIdle /\ TypingIdle
ArrowSpec == ArrowSpecInit /\ [][ArrowNext]_vars
====
